---------------------------- MODULE Spec2Model ----------------------------
(***************************************************************************)
(* dispy: a byte-code disassembler (src/dispy/disassembler.py) and its     *)
(* line-number manager (src/dispy/line_numbering.py).                      *)
(*                                                                         *)
(* Two specifications share the variables:                                 *)
(*   Spec        one Disassembler walking one code object (disassemble()), *)
(*   MapperSpec  one LineNumbering object driven by an arbitrary client    *)
(*               calling step() and at_new_line(pc) in any order.          *)
(***************************************************************************)
EXTENDS Integers, Sequences, FiniteSets, TLC

(***************************************************************************)
(* Bounds of the model.                                                    *)
(***************************************************************************)
\* longest instruction stream (co_code), in bytes
MaxLen == 4
\* longest line table (co_lnotab), in bytes; two bytes make one pair
MaxLnotab == 4
\* largest byte of a line table
MaxStep == 1
\* largest first line number (co_firstlineno)
MaxFirstLine == 1

\* most bytes before the instruction whose operand is decoded
MaxPrefix == 2
\* largest operand byte of the instruction whose operand is decoded
MaxOperandByte == 2

(***************************************************************************)
(* Program constants.                                                      *)
(***************************************************************************)
STOP_CODE == 0
POP_TOP == 1

\* The opcode tables of the dis module the code reads (CPython's opcode.py).
hasconst == {100}
hasname == {90, 91, 95, 96, 97, 98, 101, 106, 108, 109, 116}
hasjrel == {93, 110, 120, 121, 122, 143}
hasjabs == {111, 112, 113, 114, 115, 119}
haslocal == {124, 125, 126}
hascompare == {107}
hasfree == {135, 136, 137}
hasnargs == {131, 140, 141, 142}

\* _join_instructions_that_take_arguments: every dis.has* list joined
instructions_taking_arguments ==
    hasconst \cup hasname \cup hasjrel \cup hasjabs \cup haslocal
        \cup hascompare \cup hasfree \cup hasnargs

\* The bytes the streams of the model are made of: the two filler bytes
\* (which, as operand bytes, make the operands 0, 1, 256, 257), LOAD_CONST (an
\* index operand) and JUMP_FORWARD (an operand no table bounds).
StreamBytes == {STOP_CODE, POP_TOP, 100, 110}

\* The symbol tables of the code objects of the model.
ModelNames == <<"n0", "n1">>
ModelVarnames == <<"v0">>
ModelConsts == <<"c0">>

(***************************************************************************)
(* Python helpers.                                                         *)
(***************************************************************************)
\* all sequences over S of length 0..n
SeqsUpTo(S, n) == UNION {[1..k -> S] : k \in 0..n}

\* seq[i] of a Python list or tuple: IndexError outside -len..len-1
Subscript(seq, i) ==
    IF 0 <= i /\ i < Len(seq) THEN [raised |-> FALSE, value |-> seq[i + 1]]
    ELSE IF i < 0 /\ -i <= Len(seq)
         THEN [raised |-> FALSE, value |-> seq[Len(seq) + i + 1]]
         ELSE [raised |-> TRUE, value |-> 0]

\* a | b on non-negative integers
RECURSIVE BitOr(_, _)
BitOr(a, b) ==
    IF a = 0 THEN b
    ELSE IF b = 0 THEN a
    ELSE (IF a % 2 = 1 \/ b % 2 = 1 THEN 1 ELSE 0)
             + 2 * BitOr(a \div 2, b \div 2)

\* a << 8
ShiftLeft8(a) == a * 256

NoException == [type |-> "", site |-> ""]
Exception(type, site) == [type |-> type, site |-> site]

VARIABLES
    code_object,        \* Disassembler._code_object (read-only artifact)
    program_counter,    \* Disassembler._program_counter
    line_numbering,     \* Disassembler._line_numbering (a LineNumbering)
    output,             \* what has been printed to output_file, line by line
    phase,              \* "failed" | "running" | "returned" | "raised"
    raised,             \* the exception that left the last call, if any
    calls,              \* the LineNumbering calls made by the last step
    reads               \* the offsets of _bytecode the last step subscripted

vars == <<code_object, program_counter, line_numbering, output, phase,
          raised, calls, reads>>

\* Disassembler._bytecode = list(bytearray(co_code))
bytecode == code_object.co_code


(***************************************************************************)
(* LineNumbering (src/dispy/line_numbering.py).  A LineNumbering object is *)
(* a record of its fields; a method is an operator from the object (self)  *)
(* to its result and the object as the method leaves it.                   *)
(***************************************************************************)

\* zip(steps[::2], steps[1::2]) starmapped into Step(bytecode_step, line_step):
\* a trailing odd byte is dropped by zip
Steps(co_lnotab) ==
    [k \in 1..(Len(co_lnotab) \div 2) |->
        [bytecode_step |-> co_lnotab[2 * k - 1], line_step |-> co_lnotab[2 * k]]]

\* the value of _line_numbering when LineNumbering.__init__ raised
Unconstructed ==
    [steps |-> [bytecode_step |-> 0, line_step |-> 0], iterator |-> <<>>,
     line_number |-> 0, next_address |-> 0, is_exhausted |-> FALSE]

\* __init__ that starts an empty table at co_firstlineno, exhausted
LineNumbering_defaulting(code) ==
    LET iterator == Steps(code.co_lnotab)
    IN  IF iterator = <<>>
        THEN [raised |-> FALSE,
              self |-> [steps |-> [bytecode_step |-> 0, line_step |-> 0],
                        iterator |-> <<>>,
                        line_number |-> code.co_firstlineno,
                        next_address |-> 0,
                        is_exhausted |-> TRUE]]
        ELSE [raised |-> FALSE,
              self |-> [steps |-> Head(iterator),
                        iterator |-> Tail(iterator),
                        line_number |->
                            code.co_firstlineno + Head(iterator).line_step,
                        next_address |-> Head(iterator).bytecode_step,
                        is_exhausted |-> FALSE]]

\* LineNumbering.__init__: next() of an empty iterator raises StopIteration
LineNumbering(code) ==
    LET iterator == Steps(code.co_lnotab)
    IN  IF iterator = <<>>
        THEN [raised |-> TRUE, self |-> Unconstructed]
        ELSE [raised |-> FALSE,
              self |-> [steps |-> Head(iterator),
                        iterator |-> Tail(iterator),
                        line_number |->
                            code.co_firstlineno + Head(iterator).line_step,
                        next_address |-> Head(iterator).bytecode_step,
                        is_exhausted |-> FALSE]]

\* LineNumbering._try_step
try_step(self) ==
    IF self.iterator # <<>>
    THEN [self EXCEPT !.steps = Head(self.iterator),
                      !.iterator = Tail(self.iterator),
                      !.next_address = @ + Head(self.iterator).bytecode_step]
    ELSE [self EXCEPT !.is_exhausted = TRUE]

\* step without its test of is_exhausted
step_unchecked(self) ==
    [raised |-> FALSE,
     self |-> try_step([self EXCEPT !.line_number = @ + self.steps.line_step])]

\* step that subtracts the line increment
step_subtracting(self) ==
    IF self.is_exhausted
    THEN [raised |-> TRUE, self |-> self]
    ELSE [raised |-> FALSE,
          self |-> try_step([self EXCEPT !.line_number =
                                             @ - self.steps.line_step])]

\* LineNumbering.step
step(self) ==
    IF self.is_exhausted
    THEN [raised |-> TRUE, self |-> self]
    ELSE [raised |-> FALSE,
          self |-> try_step([self EXCEPT !.line_number =
                                             @ + self.steps.line_step])]

\* at_new_line without its test of is_exhausted
at_new_line_ignoring_exhaustion(self, pc) == pc >= self.next_address

\* at_new_line with > for >=
at_new_line_strict(self, pc) ==
    IF self.is_exhausted THEN FALSE ELSE pc > self.next_address

\* LineNumbering.at_new_line
at_new_line(self, pc) ==
    IF self.is_exhausted THEN FALSE ELSE pc >= self.next_address

\* one entry of the log of LineNumbering calls: the method, its argument,
\* what it returned, whether it raised, and the object as the call found it
Call(op, arg, ret, exc, before) ==
    [op |-> op, arg |-> arg, ret |-> ret, raised |-> exc, before |-> before]

(***************************************************************************)
(* Disassembler (src/dispy/disassembler.py).                               *)
(***************************************************************************)

\* print(file=output_file): an empty line
BlankLine ==
    [kind |-> "blank", line_number |-> <<>>, offset |-> 0, instruction |-> 0,
     argument |-> <<>>]

\* print(line, file=output_file): the line-number field ('' is <<>>, a number
\* n is <<n>>), the offset, the opcode whose name is shown, and the
\* (constant, argument) pair (<<>> when the instruction has none)
Record(line_number, offset, instruction, argument) ==
    [kind |-> "record", line_number |-> line_number, offset |-> offset,
     instruction |-> instruction, argument |-> argument]

\* _at_stop_sequence without its test for the end of the stream
at_stop_sequence_unguarded(instruction, pc) ==
    IF instruction # POP_TOP
    THEN [raised |-> FALSE, ret |-> FALSE, reads |-> {}]
    ELSE LET next == Subscript(bytecode, pc + 1)
         IN  IF next.raised
             THEN [raised |-> TRUE, ret |-> FALSE, reads |-> {pc + 1}]
             ELSE IF next.value # STOP_CODE
                  THEN [raised |-> FALSE, ret |-> FALSE, reads |-> {pc + 1}]
                  ELSE [raised |-> FALSE, ret |-> TRUE, reads |-> {pc + 1}]

\* _at_stop_sequence that does not look at the byte after POP_TOP
at_stop_sequence_no_lookahead(instruction, pc) ==
    IF instruction # POP_TOP
    THEN [raised |-> FALSE, ret |-> FALSE, reads |-> {}]
    ELSE [raised |-> FALSE, ret |-> TRUE, reads |-> {}]

\* _at_stop_sequence that reads the next byte before it tests the opcode
at_stop_sequence_eager(instruction, pc) ==
    IF pc + 1 = Len(bytecode)
    THEN [raised |-> FALSE, ret |-> FALSE, reads |-> {}]
    ELSE LET next == Subscript(bytecode, pc + 1)
         IN  [raised |-> next.raised,
              ret |-> ~next.raised /\ instruction = POP_TOP
                          /\ next.value = STOP_CODE,
              reads |-> {pc + 1}]

\* _at_stop_sequence that looks for STOP_CODE followed by POP_TOP, the order
\* the comment in disassemble() gives
at_stop_sequence_swapped(instruction, pc) ==
    IF instruction # STOP_CODE
    THEN [raised |-> FALSE, ret |-> FALSE, reads |-> {}]
    ELSE IF pc + 1 = Len(bytecode)
    THEN [raised |-> FALSE, ret |-> FALSE, reads |-> {}]
    ELSE LET next == Subscript(bytecode, pc + 1)
         IN  [raised |-> next.raised,
              ret |-> ~next.raised /\ next.value = POP_TOP,
              reads |-> {pc + 1}]

\* Disassembler._at_stop_sequence
at_stop_sequence(instruction, pc) ==
    IF instruction # POP_TOP
    THEN [raised |-> FALSE, ret |-> FALSE, reads |-> {}]
    ELSE IF pc + 1 = Len(bytecode)
    THEN [raised |-> FALSE, ret |-> FALSE, reads |-> {}]
    ELSE LET next == Subscript(bytecode, pc + 1)
         IN  IF next.raised
             THEN [raised |-> TRUE, ret |-> FALSE, reads |-> {pc + 1}]
             ELSE IF next.value # STOP_CODE
                  THEN [raised |-> FALSE, ret |-> FALSE, reads |-> {pc + 1}]
                  ELSE [raised |-> FALSE, ret |-> TRUE, reads |-> {pc + 1}]

\* _load_constant that reads a byte past the end of the stream as 0
load_constant_padded(offset) ==
    LET high == Subscript(bytecode, offset + 2)
        low == Subscript(bytecode, offset + 1)
    IN  [raised |-> FALSE,
         value |-> BitOr(ShiftLeft8(IF high.raised THEN 0 ELSE high.value),
                         IF low.raised THEN 0 ELSE low.value),
         reads |-> {offset + 2, offset + 1}]

\* _load_constant that takes the first operand byte for the high one
load_constant_big_endian(offset) ==
    LET high == Subscript(bytecode, offset + 1)
        low == Subscript(bytecode, offset + 2)
    IN  IF low.raised
        THEN [raised |-> TRUE, value |-> 0, reads |-> {offset + 1, offset + 2}]
        ELSE [raised |-> FALSE,
              value |-> BitOr(ShiftLeft8(high.value), low.value),
              reads |-> {offset + 1, offset + 2}]

\* Disassembler._load_constant: the high byte is read first
load_constant(offset) ==
    LET high == Subscript(bytecode, offset + 2)
        low == Subscript(bytecode, offset + 1)
    IN  IF high.raised
        THEN [raised |-> TRUE, value |-> 0, reads |-> {offset + 2}]
        ELSE IF low.raised
        THEN [raised |-> TRUE, value |-> 0, reads |-> {offset + 2, offset + 1}]
        ELSE [raised |-> FALSE,
              value |-> BitOr(ShiftLeft8(high.value), low.value),
              reads |-> {offset + 2, offset + 1}]

\* Disassembler._load_function_call_arguments: the string
\* '<low> positional, <high> keyword pair', kept as the pair of its numbers
load_function_call_arguments(pc) ==
    LET number_of_positional == Subscript(bytecode, pc + 1)
        number_of_keyword == Subscript(bytecode, pc + 2)
    IN  IF number_of_positional.raised
        THEN [raised |-> TRUE, value |-> <<>>, reads |-> {pc + 1}]
        ELSE IF number_of_keyword.raised
        THEN [raised |-> TRUE, value |-> <<>>, reads |-> {pc + 1, pc + 2}]
        ELSE [raised |-> FALSE,
              value |-> <<number_of_positional.value, number_of_keyword.value>>,
              reads |-> {pc + 1, pc + 2}]

\* a subscript of a table of the code object: no byte of _bytecode is read
OfTable(subscripted) ==
    [raised |-> subscripted.raised, value |-> subscripted.value, reads |-> {}]

\* _load_argument that counts a relative jump from the next instruction
load_argument_jump_from_next(instruction, constant, pc) ==
    IF instruction \in hasname
    THEN OfTable(Subscript(code_object.co_names, constant))
    ELSE IF instruction \in haslocal
         THEN OfTable(Subscript(code_object.co_varnames, constant))
    ELSE IF instruction \in hasconst
         THEN OfTable(Subscript(code_object.co_consts, constant))
    ELSE IF instruction \in hasnargs THEN load_function_call_arguments(pc)
    ELSE IF instruction \in hasjrel
         THEN [raised |-> FALSE, value |-> pc + 3 + constant, reads |-> {}]
    ELSE IF instruction \in hasjabs
         THEN [raised |-> FALSE, value |-> constant, reads |-> {}]
    ELSE [raised |-> FALSE, value |-> "None", reads |-> {}]

\* Disassembler._load_argument
load_argument(instruction, constant, pc) ==
    IF instruction \in hasname
    THEN OfTable(Subscript(code_object.co_names, constant))
    ELSE IF instruction \in haslocal
         THEN OfTable(Subscript(code_object.co_varnames, constant))
    ELSE IF instruction \in hasconst
         THEN OfTable(Subscript(code_object.co_consts, constant))
    ELSE IF instruction \in hasnargs THEN load_function_call_arguments(pc)
    ELSE IF instruction \in hasjrel
         THEN [raised |-> FALSE, value |-> pc + constant, reads |-> {}]
    ELSE IF instruction \in hasjabs
         THEN [raised |-> FALSE, value |-> constant, reads |-> {}]
    ELSE [raised |-> FALSE, value |-> "None", reads |-> {}]

\* _format_line_number that also steps in its branch for offset 0
format_line_number_steps_at_zero(self, pc, out) ==
    LET new_line == at_new_line(self, pc)
        asked == <<Call("at_new_line", pc, new_line, FALSE, self)>>
        stepped == step(self)
        both == asked \o <<Call("step", pc, FALSE, stepped.raised, self)>>
    IN  IF new_line
        THEN [raised |-> stepped.raised,
              line_number |-> <<self.line_number>>,
              line_numbering |-> stepped.self,
              output |-> IF pc > 0 THEN Append(out, BlankLine) ELSE out,
              calls |-> both]
        ELSE IF pc = 0
        THEN [raised |-> stepped.raised, line_number |-> <<self.line_number>>,
              line_numbering |-> stepped.self, output |-> out, calls |-> both]
        ELSE [raised |-> FALSE, line_number |-> <<>>,
              line_numbering |-> self, output |-> out, calls |-> asked]

\* _format_line_number without its branch for offset 0
format_line_number_unforced(self, pc, out) ==
    LET new_line == at_new_line(self, pc)
        asked == <<Call("at_new_line", pc, new_line, FALSE, self)>>
    IN  IF new_line
        THEN LET stepped == step(self)
             IN  [raised |-> stepped.raised,
                  line_number |-> <<self.line_number>>,
                  line_numbering |-> stepped.self,
                  output |-> IF pc > 0 THEN Append(out, BlankLine) ELSE out,
                  calls |-> asked \o
                      <<Call("step", pc, FALSE, stepped.raised, self)>>]
        ELSE [raised |-> FALSE, line_number |-> <<>>,
              line_numbering |-> self, output |-> out, calls |-> asked]

\* Disassembler._format_line_number
format_line_number(self, pc, out) ==
    LET new_line == at_new_line(self, pc)
        asked == <<Call("at_new_line", pc, new_line, FALSE, self)>>
    IN  IF new_line
        THEN LET stepped == step(self)
             IN  [raised |-> stepped.raised,
                  line_number |-> <<self.line_number>>,
                  line_numbering |-> stepped.self,
                  output |-> IF pc > 0 THEN Append(out, BlankLine) ELSE out,
                  calls |-> asked \o
                      <<Call("step", pc, FALSE, stepped.raised, self)>>]
        ELSE IF pc = 0
        THEN [raised |-> FALSE, line_number |-> <<self.line_number>>,
              line_numbering |-> self, output |-> out, calls |-> asked]
        ELSE [raised |-> FALSE, line_number |-> <<>>,
              line_numbering |-> self, output |-> out, calls |-> asked]

\* Disassembler._print_instruction: the line number is formatted (and the
\* blank separator printed) before the record is printed
print_instruction(instruction, argument, pc, self, out) ==
    LET f == format_line_number(self, pc, out)
    IN  [raised |-> f.raised,
         line_numbering |-> f.line_numbering,
         output |-> IF f.raised THEN f.output
                    ELSE Append(f.output,
                                Record(f.line_number, pc, instruction, argument)),
         calls |-> f.calls]

\* Disassembler._disassemble_instruction: the state the call leaves, and the
\* exception that ends it, if any
disassemble_instruction(instruction, pc, self, out) ==
    LET unchanged(exc, read) ==
            [raised |-> exc, program_counter |-> pc, line_numbering |-> self,
             output |-> out, calls |-> <<>>, reads |-> read]
        printed(p, width, read) ==
            IF p.raised
            THEN [raised |-> Exception("StopIteration", "step"),
                  program_counter |-> pc, line_numbering |-> p.line_numbering,
                  output |-> p.output, calls |-> p.calls, reads |-> read]
            ELSE [raised |-> NoException, program_counter |-> pc + width,
                  line_numbering |-> p.line_numbering, output |-> p.output,
                  calls |-> p.calls, reads |-> read]
    IN  IF instruction \in instructions_taking_arguments
        THEN LET constant == load_constant(pc)
             IN  IF constant.raised
                 THEN unchanged(Exception("IndexError", "_load_constant"),
                                constant.reads)
                 ELSE LET argument ==
                              load_argument(instruction, constant.value, pc)
                          read == constant.reads \cup argument.reads
                      IN  IF argument.raised
                          THEN unchanged(
                                   Exception("IndexError", "_load_argument"),
                                   read)
                          ELSE printed(
                                   print_instruction(instruction,
                                       <<constant.value, argument.value>>,
                                       pc, self, out), 3, read)
        ELSE printed(print_instruction(instruction, <<>>, pc, self, out), 1, {})

(***************************************************************************)
(* The walk: Disassembler.__init__ and disassemble().                      *)
(***************************************************************************)

CodeObjects ==
    [co_code : SeqsUpTo(StreamBytes, MaxLen),
     co_lnotab : SeqsUpTo(0..MaxStep, MaxLnotab),
     co_firstlineno : 1..MaxFirstLine,
     co_names : {ModelNames},
     co_varnames : {ModelVarnames},
     co_consts : {ModelConsts}]

\* Disassembler.__init__: the state it leaves, or the exception of
\* LineNumbering.__init__ that ends it
Init ==
    /\ code_object \in CodeObjects
    /\ program_counter = 0
    /\ output = <<>>
    /\ calls = <<>>
    /\ reads = {}
    /\ LET constructed == LineNumbering(code_object)
       IN  /\ line_numbering = constructed.self
           /\ phase = IF constructed.raised THEN "failed" ELSE "running"
           /\ raised = IF constructed.raised
                       THEN Exception("StopIteration", "__init__")
                       ELSE NoException

\* the loop of disassemble() at its test
AtLoop == phase = "running" /\ program_counter < Len(bytecode)

\* Disassembler._current_instruction (the loop test keeps the read in range)
current_instruction == Subscript(bytecode, program_counter).value

\* SkipStopSequence without its "+= 2"
SkipStopSequence_stuck ==
    /\ AtLoop
    /\ LET stop == at_stop_sequence(current_instruction, program_counter)
       IN  /\ ~stop.raised
           /\ stop.ret
    /\ program_counter' = program_counter
    /\ calls' = <<>>
    /\ reads' = {program_counter}
           \cup at_stop_sequence(current_instruction, program_counter).reads
    /\ UNCHANGED <<code_object, line_numbering, output, phase, raised>>

\* one iteration of the loop that finds the stop sequence
SkipStopSequence ==
    /\ AtLoop
    /\ LET stop == at_stop_sequence(current_instruction, program_counter)
       IN  /\ ~stop.raised
           /\ stop.ret
    /\ program_counter' = program_counter + 2
    /\ calls' = <<>>
    /\ reads' = {program_counter}
           \cup at_stop_sequence(current_instruction, program_counter).reads
    /\ UNCHANGED <<code_object, line_numbering, output, phase, raised>>

\* one iteration of the loop that disassembles an instruction, or is ended
\* by an exception
DisassembleInstruction ==
    /\ AtLoop
    /\ LET stop == at_stop_sequence(current_instruction, program_counter)
       IN  /\ ~(~stop.raised /\ stop.ret)
           /\ IF stop.raised
              THEN /\ raised' = Exception("IndexError", "_at_stop_sequence")
                   /\ phase' = "raised"
                   /\ calls' = <<>>
                   /\ reads' = {program_counter} \cup stop.reads
                   /\ UNCHANGED <<program_counter, line_numbering, output>>
              ELSE LET d == disassemble_instruction(current_instruction,
                                program_counter, line_numbering, output)
                   IN  /\ raised' = d.raised
                       /\ phase' = IF d.raised = NoException
                                   THEN "running" ELSE "raised"
                       /\ program_counter' = d.program_counter
                       /\ line_numbering' = d.line_numbering
                       /\ output' = d.output
                       /\ calls' = d.calls
                       /\ reads' = {program_counter} \cup stop.reads
                                       \cup d.reads
    /\ UNCHANGED code_object

\* the loop test fails: disassemble() returns
Return ==
    /\ phase = "running"
    /\ ~(program_counter < Len(bytecode))
    /\ phase' = "returned"
    /\ calls' = <<>>
    /\ reads' = {}
    /\ UNCHANGED <<code_object, program_counter, line_numbering, output, raised>>

Next == SkipStopSequence \/ DisassembleInstruction \/ Return

Spec == Init /\ [][Next]_vars

\* The walks termination is checked on: the code objects of Init whose line
\* table holds at most one pair and whose first line is 1 (the LineNumbering
\* is still constructed, stepped and exhausted, or fails to construct).
TerminationInit ==
    /\ Init
    /\ Len(code_object.co_lnotab) <= 2
    /\ code_object.co_firstlineno = 1

\* disassemble() runs to its end: it is a synchronous loop that nothing
\* suspends or interleaves with, so a loop iteration that can run does run
FairSpec == TerminationInit /\ [][Next]_vars /\ WF_vars(Next)

(***************************************************************************)
(* A LineNumbering object under an arbitrary client.                       *)
(***************************************************************************)

MapperInit ==
    /\ code_object \in {c \in CodeObjects :
                           c.co_code = <<>> /\ ~LineNumbering(c).raised}
    /\ program_counter = 0
    /\ output = <<>>
    /\ calls = <<>>
    /\ reads = {}
    /\ line_numbering = LineNumbering(code_object).self
    /\ phase = "client"
    /\ raised = NoException

\* the client calls step()
CallStep ==
    /\ phase = "client"
    /\ LET stepped == step(line_numbering)
       IN  /\ line_numbering' = stepped.self
           /\ raised' = IF stepped.raised
                        THEN Exception("StopIteration", "step")
                        ELSE NoException
           /\ calls' = <<Call("step", 0, FALSE, stepped.raised, line_numbering)>>
    /\ UNCHANGED <<code_object, program_counter, output, phase, reads>>

\* the client calls at_new_line(pc)
CallAtNewLine ==
    /\ phase = "client"
    /\ \E pc \in 0..MaxLen :
           calls' = <<Call("at_new_line", pc, at_new_line(line_numbering, pc),
                           FALSE, line_numbering)>>
    /\ raised' = NoException
    /\ UNCHANGED <<code_object, program_counter, line_numbering, output, phase,
                   reads>>

MapperNext == CallStep \/ CallAtNewLine

MapperSpec == MapperInit /\ [][MapperNext]_vars

(***************************************************************************)
(* The walk over streams that end in one instruction with an argument, of  *)
(* every kind of argument _load_argument tells apart, at offsets 0 and up. *)
(***************************************************************************)

\* one opcode of each dis.has* list: LOAD_CONST, LOAD_NAME, LOAD_FAST,
\* CALL_FUNCTION, JUMP_FORWARD, JUMP_ABSOLUTE, COMPARE_OP
DecodeOpcodes == {100, 101, 124, 131, 110, 113, 107}

\* opcodes on no dis.has* list: the two of the stop sequence and RETURN_VALUE
NoOperandOpcodes == {STOP_CODE, POP_TOP, 83}

DecodeStreams ==
    {prefix \o <<opcode, low, high>> :
        prefix \in SeqsUpTo(NoOperandOpcodes, MaxPrefix),
        opcode \in DecodeOpcodes,
        low \in 0..MaxOperandByte,
        high \in 0..MaxOperandByte}

DecodeInit ==
    /\ code_object \in
           [co_code : DecodeStreams,
            co_lnotab : {t \in SeqsUpTo(0..MaxStep, MaxLnotab) : Len(t) = 2},
            co_firstlineno : 1..MaxFirstLine,
            co_names : {ModelNames},
            co_varnames : {ModelVarnames},
            co_consts : {ModelConsts}]
    /\ program_counter = 0
    /\ output = <<>>
    /\ calls = <<>>
    /\ reads = {}
    /\ line_numbering = LineNumbering(code_object).self
    /\ phase = "running"
    /\ raised = NoException

DecodeSpec == DecodeInit /\ [][Next]_vars

(***************************************************************************)
(* Properties.                                                             *)
(***************************************************************************)

\* the records among the printed lines (the blank separators left out)
Records(out) == SelectSeq(out, LAMBDA l : l.kind = "record")

\* the walk is over: the constructor raised, disassemble() raised, or it
\* returned
Finished == phase \in {"failed", "raised", "returned"}

\* C1: every iteration of the loop of disassemble() moves the cursor forward
\* by 1, 2 or 3 or ends the walk with an exception, and every walk ends:
\* with an exception, or returned with the cursor at the end of the stream.
C1_WalkTerminates ==
    /\ [][AtLoop =>
            \/ program_counter' - program_counter \in {1, 2, 3}
            \/ phase' = "raised" /\ raised' # NoException]_vars
    /\ <>(\/ phase \in {"failed", "raised"}
          \/ phase = "returned" /\ program_counter = Len(bytecode))

\* C1 witness: a walk over a full-length stream that skipped a stop sequence
\* and printed two records has returned.
C1_Witness ==
    /\ phase = "returned"
    /\ Len(bytecode) = MaxLen
    /\ program_counter = Len(bytecode)
    /\ Len(Records(output)) = 2
    /\ Records(output)[1].offset = 2

\* the instruction at the cursor takes an argument and fewer than two bytes
\* follow it
IncompleteOperand(pc) ==
    /\ pc < Len(bytecode)
    /\ bytecode[pc + 1] \in instructions_taking_arguments
    /\ pc + 2 >= Len(bytecode)

\* the instruction at the cursor has its two operand bytes and they index
\* past the end of the table its opcode names
OperandOutOfRange(pc) ==
    /\ pc + 2 < Len(bytecode)
    /\ LET opcode == bytecode[pc + 1]
           operand == bytecode[pc + 2] + 256 * bytecode[pc + 3]
       IN  \/ opcode \in hasname /\ operand >= Len(code_object.co_names)
           \/ opcode \in haslocal /\ operand >= Len(code_object.co_varnames)
           \/ opcode \in hasconst /\ operand >= Len(code_object.co_consts)

\* C2: disassemble() raises only at a malformed instruction: whenever it
\* has raised, the cursor is at an instruction that takes an argument and
\* either lacks one of its two operand bytes or indexes past the end of its
\* table (so never StopIteration, never a read past the stream by the
\* stop-sequence test); and when it returns, it has raised nothing and the
\* cursor is the length of the stream.
C2_FailsOnlyIfMalformed ==
    /\ phase = "raised" =>
           /\ raised.type = "IndexError"
           /\ IncompleteOperand(program_counter)
                  \/ OperandOutOfRange(program_counter)
    /\ phase = "returned" =>
           /\ raised = NoException
           /\ program_counter = Len(bytecode)

\* C2 witness: a well-formed full-length stream that holds an instruction
\* with a valid index operand and ends in a lone POP_TOP has been walked to
\* its end.
C2_Witness ==
    /\ phase = "returned"
    /\ Len(bytecode) = MaxLen
    /\ bytecode[1] \in hasconst
    /\ bytecode[Len(bytecode)] = POP_TOP
    /\ Len(Records(output)) = 2

\* C3: the cursor stays within 0..length, never decreases, and
\* disassemble() returns exactly when the cursor is the length: it does not
\* return from a cursor before the end, and at the end it does nothing else.
C3_CursorInvariant ==
    /\ [](/\ 0 <= program_counter
          /\ program_counter <= Len(bytecode)
          /\ phase = "returned" => program_counter = Len(bytecode))
    /\ [][/\ program_counter' >= program_counter
          /\ AtLoop => phase' # "returned"
          /\ phase = "running" /\ program_counter = Len(bytecode)
                 => phase' = "returned"]_vars

\* C3 witness: a stop sequence in the last two bytes was skipped after an
\* instruction before it was printed; the cursor is the length.
C3_Witness ==
    /\ phase = "running"
    /\ Len(bytecode) > 2
    /\ program_counter = Len(bytecode)
    /\ bytecode[Len(bytecode) - 1] = POP_TOP
    /\ bytecode[Len(bytecode)] = STOP_CODE
    /\ calls = <<>>
    /\ Len(Records(output)) >= 1

\* C4: in every loop iteration step() is called at most once, only right
\* after at_new_line returned True for the offset of the instruction being
\* printed on a LineNumbering that was not exhausted (and that nothing
\* changed in between), only for a record that is then printed, and never
\* raises: StopIteration never leaves the walk.
C4_StepOnlyAfterNewLine ==
    /\ raised.type # "StopIteration" \/ phase = "failed"
    /\ Cardinality({i \in 1..Len(calls) : calls[i].op = "step"}) <= 1
    /\ \A i \in 1..Len(calls) :
           calls[i].op = "step" =>
               /\ i > 1
               /\ calls[i - 1].op = "at_new_line"
               /\ calls[i - 1].ret
               /\ ~calls[i - 1].before.is_exhausted
               /\ calls[i].before = calls[i - 1].before
               /\ ~calls[i].raised
               /\ output # <<>>
               /\ output[Len(output)].kind = "record"
               /\ output[Len(output)].offset = calls[i - 1].arg
               /\ output[Len(output)].offset < program_counter

\* C4 witness: the step() of a record past offset 0 consumed the last pair:
\* the LineNumbering is exhausted by a step the walk made.
C4_Witness ==
    /\ phase = "running"
    /\ Len(calls) = 2
    /\ calls[2].op = "step"
    /\ calls[2].arg > 0
    /\ line_numbering.is_exhausted

\* the numbers printed in the line-number field, in the order printed
LineNumbersPrinted(out) ==
    LET numbered == SelectSeq(out, LAMBDA l : l.line_number # <<>>)
    IN  [i \in 1..Len(numbered) |-> numbered[i].line_number[1]]

\* C5: the line numbers printed in the line-number field (the one forced at
\* offset 0 included) never decrease along the output.
C5_LineNumbersNonDecreasing ==
    LET printed == LineNumbersPrinted(output)
    IN  \A i, j \in 1..Len(printed) : i < j => printed[i] <= printed[j]

\* C5 witness: a line number was forced at offset 0 and a larger one was
\* printed later.
C5_Witness ==
    LET printed == LineNumbersPrinted(output)
    IN  /\ Len(printed) >= 2
        /\ printed[1] < printed[Len(printed)]
        /\ output[1].kind = "record"
        /\ output[1].offset = 0
        /\ line_numbering.next_address > 0

\* the sum of field f over the first n pairs of a line table
RECURSIVE SumOf(_, _, _)
SumOf(pairs, n, f) ==
    IF n = 0 THEN 0 ELSE SumOf(pairs, n - 1, f) + pairs[n][f]

\* C6: a LineNumbering that is not exhausted and has taken k + 1 pairs from
\* its table (one at construction, one per step()) has line_number =
\* co_firstlineno + the line steps of pairs 0..k and next_address = the
\* bytecode steps of pairs 0..k.  (The code breaks this: step() adds the
\* line step of the pair it already holds, not of the pair it fetches.)
C6_AdvanceAddsNextPair ==
    LET pairs == Steps(code_object.co_lnotab)
        taken == Len(pairs) - Len(line_numbering.iterator)
    IN  phase = "client" /\ ~line_numbering.is_exhausted =>
            /\ line_numbering.line_number =
                   code_object.co_firstlineno + SumOf(pairs, taken, "line_step")
            /\ line_numbering.next_address =
                   SumOf(pairs, taken, "bytecode_step")

\* C7: once is_exhausted is True it stays True, at_new_line is False for
\* every offset and every call of it returns False, and every line printed
\* from then on is a record with an empty line-number field (no blank
\* separator, no line number).
C7_ExhaustedIsAbsorbing ==
    [][line_numbering.is_exhausted =>
          /\ line_numbering'.is_exhausted
          /\ \A offset \in 0..(Len(bytecode) + 1) :
                 /\ ~at_new_line(line_numbering, offset)
                 /\ ~at_new_line(line_numbering', offset)
          /\ \A i \in 1..Len(calls') :
                 calls'[i].op = "at_new_line" /\ ~calls'[i].ret
          /\ Len(output') >= Len(output)
          /\ \A i \in (Len(output) + 1)..Len(output') :
                 /\ output'[i].kind = "record"
                 /\ output'[i].line_number = <<>>]_vars

\* C7 witness: a record was printed from an exhausted LineNumbering at an
\* offset at or past its next_address.
C7_Witness ==
    /\ phase = "running"
    /\ Len(calls) = 1
    /\ calls[1].before.is_exhausted
    /\ calls[1].arg >= calls[1].before.next_address
    /\ output[Len(output)].offset = calls[1].arg

\* C8: at_new_line(pc) returns False on an exhausted LineNumbering and
\* pc >= next_address otherwise, and leaves every field of the object
\* (line_number, next_address, the pair held, the pairs left, is_exhausted)
\* as it found it.
C8_AtNewLineIsPureQuery ==
    [][\A i \in 1..Len(calls') :
           calls'[i].op = "at_new_line" /\ phase = "client" =>
               /\ calls'[i].before = line_numbering
               /\ calls'[i].ret =
                      IF line_numbering.is_exhausted THEN FALSE
                      ELSE calls'[i].arg >= line_numbering.next_address
               /\ ~calls'[i].raised
               /\ line_numbering' = line_numbering]_vars

\* C8 witness: at_new_line was asked at exactly next_address on a
\* LineNumbering that is not exhausted and has stepped, and returned True.
C8_Witness ==
    /\ phase = "client"
    /\ Len(calls) = 1
    /\ calls[1].op = "at_new_line"
    /\ calls[1].ret
    /\ calls[1].arg = line_numbering.next_address
    /\ calls[1].arg > 0
    /\ line_numbering.iterator = <<>>
    /\ ~line_numbering.is_exhausted

\* C9: step() on an exhausted LineNumbering raises StopIteration and leaves
\* the object (line_number, next_address, is_exhausted and the rest) as it
\* found it.
C9_StepOnExhaustedRaises ==
    \A i \in 1..Len(calls) :
        calls[i].op = "step" /\ calls[i].before.is_exhausted =>
            /\ calls[i].raised
            /\ raised = Exception("StopIteration", "step")
            /\ line_numbering = calls[i].before

\* C9 witness: step() was called on an exhausted LineNumbering whose pair
\* has a line step that a second addition would show.
C9_Witness ==
    /\ phase = "client"
    /\ Len(calls) = 1
    /\ calls[1].op = "step"
    /\ calls[1].before.is_exhausted
    /\ calls[1].before.steps.line_step > 0
    /\ raised.type = "StopIteration"

\* C10: a loop iteration at an instruction that takes an argument and has
\* fewer than two bytes after it raises (IndexError, reading the operand)
\* and changes nothing else: no line is printed, the LineNumbering is neither
\* asked nor stepped, and the cursor stays at the opcode.
C10_IncompleteOperandAborts ==
    [][AtLoop /\ IncompleteOperand(program_counter) =>
          /\ phase' = "raised"
          /\ raised' = Exception("IndexError", "_load_constant")
          /\ output' = output
          /\ line_numbering' = line_numbering
          /\ calls' = <<>>
          /\ program_counter' = program_counter]_vars

\* C10 witness: the walk raised at an opcode with one byte after it, after
\* it had printed a record with a line number and stepped.
C10_Witness ==
    /\ phase = "raised"
    /\ raised.site = "_load_constant"
    /\ program_counter + 2 = Len(bytecode)
    /\ Len(Records(output)) >= 1
    /\ output[Len(output)].line_number # <<>>
    /\ line_numbering.iterator = <<>>

\* the 16-bit operand of the instruction at offset o
OperandAt(o) == bytecode[o + 2] + 256 * bytecode[o + 3]

\* the argument shown in a record is the one the decoding table gives for
\* the opcode, the operand and the offset of the record
DecodedAsSpecified(record) ==
    LET o == record.offset
        opcode == record.instruction
        operand == OperandAt(o)
        shown == record.argument[2]
    IN  /\ opcode \in hasname =>
               /\ operand < Len(code_object.co_names)
               /\ shown = code_object.co_names[operand + 1]
        /\ opcode \in haslocal =>
               /\ operand < Len(code_object.co_varnames)
               /\ shown = code_object.co_varnames[operand + 1]
        /\ opcode \in hasconst =>
               /\ operand < Len(code_object.co_consts)
               /\ shown = code_object.co_consts[operand + 1]
        /\ opcode \in hasjrel => shown = o + operand
        /\ opcode \in hasjabs => shown = operand
        /\ opcode \in hasnargs => shown = <<operand % 256, operand \div 256>>

OperandComplete(pc) ==
    /\ pc + 2 < Len(bytecode)
    /\ bytecode[pc + 1] \in instructions_taking_arguments

\* the step taken printed exactly one record, the one of the instruction at
\* the cursor with its 16-bit operand, and moved the cursor past the operand
PrintsOperandRecord ==
    /\ program_counter' = program_counter + 3
    /\ Len(Records(output')) = Len(Records(output)) + 1
    /\ LET record == output'[Len(output')]
       IN  /\ record.kind = "record"
           /\ record.offset = program_counter
           /\ record.instruction = bytecode[program_counter + 1]
           /\ record.argument # <<>>
           /\ record.argument[1] = OperandAt(program_counter)
           /\ record.argument[1] \in 0..65535

\* no record starts at an operand byte of an earlier record
OperandBytesNeverStarts ==
    \A i, j \in 1..Len(output) :
        /\ output[i].kind = "record"
        /\ output[j].kind = "record"
        /\ output[i].argument # <<>>
        => output[j].offset \notin {output[i].offset + 1, output[i].offset + 2}

\* C12 as stated: at every instruction that takes an argument and is followed
\* by at least two bytes, one iteration prints exactly one record, adds 3 to
\* the cursor, and shows the operand low | (high << 8) of the two bytes after
\* the opcode.
C12_EveryOperandStepPrints ==
    [][AtLoop /\ OperandComplete(program_counter) => PrintsOperandRecord]_vars

\* C12: at every instruction that takes an argument, is followed by at least
\* two bytes and whose operand, when it indexes co_names, co_varnames or
\* co_consts, is within that sequence, one iteration prints exactly one
\* record, adds 3 to the cursor and shows the operand low | (high << 8), a
\* value in 0..65535; an index operand outside its sequence ends the walk
\* with the cursor where it was and no record; and no record ever starts at
\* an operand byte.
C12_OperandStepPrintsInRange ==
    /\ [][AtLoop /\ OperandComplete(program_counter)
              /\ ~OperandOutOfRange(program_counter) => PrintsOperandRecord]_vars
    /\ [][AtLoop /\ OperandComplete(program_counter)
              /\ OperandOutOfRange(program_counter) =>
                  /\ program_counter' = program_counter
                  /\ output' = output
                  /\ phase' = "raised"]_vars
    /\ []OperandBytesNeverStarts

\* C12 witness: an instruction with a high operand byte other than 0 has been
\* printed and the instruction after its operand bytes has been printed too.
C12_Witness ==
    /\ Len(Records(output)) = 2
    /\ Records(output)[1].argument # <<>>
    /\ Records(output)[1].argument[1] > 255
    /\ Records(output)[1].argument[1] % 256 # 0
    /\ Records(output)[2].offset = Records(output)[1].offset + 3


\* the offsets of the stream one iteration at a POP_TOP reads: its own and,
\* when the stream goes on, the next
PopTopReads(pc) == {pc} \cup (IF pc + 1 < Len(bytecode) THEN {pc + 1} ELSE {})

AtFillerPair(pc) ==
    /\ pc + 1 < Len(bytecode)
    /\ bytecode[pc + 1] = POP_TOP
    /\ bytecode[pc + 2] = STOP_CODE

C15_FirstRecordHasLineNumber ==
    /\ [](\A i \in 1..Len(output) :
              output[i].kind = "record" /\ output[i].offset = 0 =>
                  output[i].line_number # <<>>)
    /\ [][/\ AtLoop
          /\ program_counter = 0
          /\ Len(Records(output')) = Len(Records(output)) + 1
          => /\ output'[Len(output')].line_number # <<>>
             /\ calls'[1].op = "at_new_line"
             /\ IF at_new_line(line_numbering, 0)
                THEN Len(calls') = 2 /\ calls'[2].op = "step"
                ELSE Len(calls') = 1 /\ line_numbering.next_address > 0]_vars

\* C15 witness: the record at offset 0 has been printed with a line number
\* although the first bytecode step of the line table is above 0.
C15_Witness ==
    /\ Len(output) = 1
    /\ output[1].kind = "record"
    /\ output[1].offset = 0
    /\ output[1].line_number # <<>>
    /\ code_object.co_lnotab[1] > 0
    /\ Len(calls) = 1


\* C16: an iteration that prints a record prints a blank line before it
\* exactly when at_new_line() answers True at its offset and a record has
\* been printed before; so no blank line comes before the first record,
\* whatever its offset.
C16_BlankOnlyAfterFirstRecord ==
    [][/\ AtLoop
       /\ Len(Records(output')) = Len(Records(output)) + 1
       => (Len(output') = Len(output) + 2
              <=> /\ at_new_line(line_numbering, program_counter)
                  /\ Records(output) # <<>>)]_vars


\* C17: the step() that finds no further pair (is_exhausted becomes True)
\* leaves line_number and next_address as they were, so that the exhausted
\* LineNumbering holds the line number last printed.
C17_ExhaustingStepKeepsLine ==
    [][~line_numbering.is_exhausted /\ line_numbering'.is_exhausted =>
           /\ line_numbering'.line_number = line_numbering.line_number
           /\ line_numbering'.next_address = line_numbering.next_address
           /\ output' # <<>>
           /\ output'[Len(output')].line_number =
                  <<line_numbering'.line_number>>]_vars


\* C18: when at_new_line(0) answers False (the first bytecode step is above
\* 0), the line number printed before the record at offset 0 is
\* co_firstlineno, and the iteration leaves the LineNumbering (line_number,
\* next_address, is_exhausted) as it was.
C18_ForcedNumberIsFirstLine ==
    [][/\ AtLoop
       /\ program_counter = 0
       /\ ~at_new_line(line_numbering, 0)
       /\ Len(Records(output')) = Len(Records(output)) + 1
       => /\ output'[Len(output')].line_number =
                 <<code_object.co_firstlineno>>
          /\ line_numbering' = line_numbering]_vars


\* C19: the LineNumbering never lags behind the cursor: once the record of
\* the instruction at an offset has been printed, the LineNumbering is
\* exhausted or its next_address is above that offset, for every line table
\* (pairs with a bytecode step of 0 included) and every stream.
C19_MapperNeverLags ==
    [][/\ AtLoop
       /\ Len(Records(output')) = Len(Records(output)) + 1
       => \/ line_numbering'.is_exhausted
          \/ line_numbering'.next_address > program_counter]_vars


\* C20: for a code object with an empty co_lnotab, whatever its
\* co_firstlineno and its co_code, LineNumbering.__init__ raises (the
\* StopIteration of next() on the empty iterator) and with it
\* Disassembler.__init__: there is no LineNumbering, the cursor stays 0 and
\* nothing is ever printed.
C20_EmptyLineTableFailsConstruction ==
    code_object.co_lnotab = <<>> =>
        /\ phase = "failed"
        /\ raised = Exception("StopIteration", "__init__")
        /\ line_numbering = Unconstructed
        /\ program_counter = 0
        /\ output = <<>>

\* C20 witness: construction has failed for a code object with an empty line
\* table whose stream begins with a complete instruction.
C20_Witness ==
    /\ phase = "failed"
    /\ code_object.co_lnotab = <<>>
    /\ Len(bytecode) >= 3
    /\ bytecode[1] \in hasjrel

=============================================================================
